---- MODULE Spec2Model ----
(***************************************************************************)
(* Model of the Cloudemy submission service: the four request handlers of  *)
(* app/routers/submissions.py and app/routers/internal.py running as       *)
(* concurrent coroutines against one submissions collection and one Redis  *)
(* list.  Every await on the collection or on Redis is one atomic step;    *)
(* the code between two awaits belongs to the step of the await it leads   *)
(* to.  Coroutines have no identity: the handlers are kept as a bag of     *)
(* frames, those in flight and those that have returned.                   *)
(***************************************************************************)
EXTENDS Integers, Sequences, FiniteSets, Bags, TLC

\* ---------------------------------------------------------------- bounds
MaxCalls == 3    \* requests received in a run

\* a run generates at most one ObjectId per request
Ids == 1..MaxCalls
UnknownId == MaxCalls + 1   \* an identifier no create call generates

\* ---------------------------------------------------------------- values
None == "None"                       \* Python's None
RESULT_TOKEN == "secret"
Tokens == {None, "", "wrong", RESULT_TOKEN}
Notes == {None, "Approved"}
EmptyDict == [k \in {} |-> None]

\* dict.get(key, default)
DictGet(d, k, default) == IF k \in DOMAIN d THEN d[k] ELSE default

\* request bodies of POST /submissions, as the client sends them
CreateBodies ==
  { [assignment_id |-> "assign-1", code |-> "print(1)"],
    [assignment_id |-> "assign-2", language |-> "java", code |-> "class A {}"] }

\* SubmissionCreate: language defaults to "python"
SubmissionCreate(body) ==
  [assignment_id |-> body.assignment_id,
   language |-> DictGet(body, "language", "python"),
   code |-> body.code]

\* request bodies of POST /internal/submissions/{id}/result
ResultBodies ==
  { [status |-> "COMPLETED", score |-> 95, fail_tags |-> <<"style">>,
     feedback |-> <<[case |-> "case-1", message |-> "Looks good"]>>,
     metrics |-> [timeMs |-> 1234, memoryMB |-> 64]],
    [status |-> "FAILED", score |-> 10, fail_tags |-> <<"runtime">>,
     metrics |-> [timeMs |-> 7]],
    [status |-> "TIMEOUT"],
    [status |-> "QUEUED", score |-> 1],
    [status |-> "FINALIZED", score |-> 100] }

_default_metrics == [timeMs |-> 0, memoryMB |-> 0]

\* Metrics(**m): missing members default to 0
Metrics(m) ==
  [timeMs |-> DictGet(m, "timeMs", 0), memoryMB |-> DictGet(m, "memoryMB", 0)]

\* ResultIn: every field but status has a default
ResultIn(body) ==
  [status |-> body.status,
   score |-> DictGet(body, "score", 0),
   fail_tags |-> DictGet(body, "fail_tags", << >>),
   feedback |-> DictGet(body, "feedback", << >>),
   metrics |-> Metrics(DictGet(body, "metrics", EmptyDict))]

STATUSES == {"QUEUED", "FAILED", "COMPLETED", "TIMEOUT", "FINALIZED"}
GradingOutcomes == {"COMPLETED", "FAILED", "TIMEOUT"}

\* ------------------------------------------------------------- documents
\* the document create_submission builds (no updated_at, no finalize_note)
NewDoc(id, payload) ==
  ("_id" :> id) @@
  [user_id |-> "u1",
   assignment_id |-> payload.assignment_id,
   language |-> payload.language,
   code |-> payload.code,
   status |-> "QUEUED",
   score |-> 0,
   fail_tags |-> << >>,
   feedback |-> << >>,
   metrics |-> _default_metrics,
   finalized |-> FALSE,
   attempt |-> 1]

\* mutant: the job descriptor carries the default language, not the document's
JobMessage_DefaultLanguage(doc) ==
  [submission_id |-> doc["_id"],
   assignment_id |-> doc.assignment_id,
   language |-> "python"]

\* the job descriptor create_submission publishes
JobMessage(doc) ==
  [submission_id |-> doc["_id"],
   assignment_id |-> doc.assignment_id,
   language |-> doc.language]

\* mutant: the write keeps the value of every field the document already has
DollarSet_ExistingWins(doc, patch) == doc @@ patch

\* update_one's {"$set": patch} on a stored document
DollarSet(doc, patch) == patch @@ doc

\* _doc_to_out
_doc_to_out(doc) ==
  [submission_id |-> doc["_id"],
   user_id |-> DictGet(doc, "user_id", None),
   assignment_id |-> doc.assignment_id,
   language |-> DictGet(doc, "language", "python"),
   status |-> DictGet(doc, "status", "QUEUED"),
   score |-> DictGet(doc, "score", 0),
   fail_tags |-> DictGet(doc, "fail_tags", << >>),
   feedback |-> DictGet(doc, "feedback", << >>),
   metrics |-> IF "metrics" \in DOMAIN doc THEN Metrics(doc.metrics)
               ELSE Metrics(_default_metrics),
   finalized |-> DictGet(doc, "finalized", FALSE)]

\* ------------------------------------------------------------- responses
Response(code, detail, body) == [code |-> code, detail |-> detail, body |-> body]
HTTPException(code, detail) == Response(code, detail, EmptyDict)
NoResponse == Response(0, "", EmptyDict)

SubmissionQueued(id) == [submission_id |-> id, status |-> "QUEUED", attempt |-> 1]
FinalizeOut(id) == [submission_id |-> id, status |-> "FINALIZED", finalized |-> TRUE]
OkOut(id, st) == [ok |-> TRUE, submission_id |-> id, status |-> st]

\* ----------------------------------------------------------------- state
VARIABLES
  store,      \* the submissions collection: _id -> document
  queue,      \* the Redis list QUEUE_NAME, head first
  nextId,     \* the next ObjectId
  now,        \* the clock _now_utc reads
  handlers,   \* the bag of handler frames, in flight and returned
  created,    \* identifiers a create_submission call has returned with 201
  finOk,      \* identifiers a finalize_submission call has returned 200 for
  raced,      \* per identifier: finalize calls that went on to the conditional write
  wins        \* per identifier: conditional finalize writes that matched

vars == <<store, queue, nextId, now, handlers, created, finOk, raced, wins>>

\* a handler's frame: the request (kind, id; for create, and for a result call
\* that goes on to its write, the body; for result
\* whether its token is RESULT_TOKEN and whether its status is a grading outcome,
\* for finalize its note), the await it stands at (pc), the local it carries over
\* the await (work: the job descriptor of a create call, the update_doc of a
\* result call), the branch taken (path: of a create call the outcome of its
\* push, of a finalize call its way to the response) and, once it has
\* returned, its response
Frame(kind, id) ==
  [kind |-> kind, id |-> id, pc |-> "start", body |-> EmptyDict, auth |-> FALSE,
   valid |-> FALSE, note |-> None, work |-> EmptyDict, path |-> "none",
   resp |-> NoResponse]

Init ==
  /\ store = EmptyDict
  /\ queue = << >>
  /\ nextId = 1
  /\ now = 0
  /\ handlers = EmptyBag
  /\ created = {}
  /\ finOk = {}
  /\ raced = [i \in Ids |-> 0]
  /\ wins = [i \in Ids |-> 0]

\* identifiers a request can name: those generated so far, and an unknown one
Targets == (1..(nextId - 1)) \cup {UnknownId}

\* the frames standing at the await l
At(l) == {f \in BagToSet(handlers) : f.pc = l}

\* the frame f returns r
Returned(f, r) == [f EXCEPT !.pc = "done", !.work = EmptyDict, !.resp = r]

\* the frame f goes on to the await at label l
Awaiting(f, l) == [f EXCEPT !.pc = l]

\* a request comes in; its handler runs up to its first await or return, frame f
Accept(f) ==
  /\ BagCardinality(handlers) < MaxCalls
  /\ handlers' = handlers (+) SetToBag({f})

\* the handler with frame f runs on to its next await or return, frame g
Resume(f, g) == handlers' = (handlers (-) SetToBag({f})) (+) SetToBag({g})

\* collection.insert_one(doc)
InsertOne(coll, doc) == (doc["_id"] :> doc) @@ coll

\* collection.delete_one({"_id": id})
DeleteOne(coll, id) == [i \in (DOMAIN coll) \ {id} |-> coll[i]]

\* r.lpush(QUEUE_NAME, message)
LPush(list, message) == <<message>> \o list

\* ------------------------------------------------- POST /submissions
\* create_submission up to insert_one, which succeeds
CreateInsert(body) ==
  LET doc == NewDoc(nextId, SubmissionCreate(body))
      frame == [Frame("create", nextId) EXCEPT !.body = body, !.work = JobMessage(doc)]
  IN /\ Accept(Awaiting(frame, "c_enqueue"))
     /\ store' = InsertOne(store, doc)
     /\ nextId' = nextId + 1
     /\ UNCHANGED <<queue, now, created, finOk, raced, wins>>

\* mutant: the insert failure is swallowed and the call goes on to the enqueue
CreateInsertFail_StillEnqueues(body) ==
  LET doc == NewDoc(nextId, SubmissionCreate(body))
      frame == [Frame("create", nextId) EXCEPT !.body = body, !.work = JobMessage(doc)]
  IN /\ Accept(Awaiting(frame, "c_enqueue"))
     /\ nextId' = nextId + 1
     /\ UNCHANGED <<store, queue, now, created, finOk, raced, wins>>

\* create_submission up to insert_one, which raises PyMongoError
CreateInsertFail(body) ==
  LET frame == [Frame("create", nextId) EXCEPT !.body = body]
  IN /\ Accept(Returned(frame, HTTPException(503, "database unavailable")))
     /\ nextId' = nextId + 1
     /\ UNCHANGED <<store, queue, now, created, finOk, raced, wins>>

\* _enqueue_to_queue: await r.lpush succeeds; the finally block goes on to close
CreateEnqueue(f) ==
  /\ f \in At("c_enqueue")
  /\ queue' = LPush(queue, f.work)
  /\ Resume(f, Awaiting([f EXCEPT !.path = "pushed"], "c_close"))
  /\ UNCHANGED <<store, nextId, now, created, finOk, raced, wins>>

\* _enqueue_to_queue: await r.lpush raises RedisError; the finally block goes on
\* to close with the error pending
CreateEnqueueFail(f) ==
  /\ f \in At("c_enqueue")
  /\ Resume(f, Awaiting([f EXCEPT !.path = "failed"], "c_close"))
  /\ UNCHANGED <<store, queue, nextId, now, created, finOk, raced, wins>>

\* _enqueue_to_queue: await r.close returns; after a successful lpush
\* create_submission returns 201, after a failed one the pending RedisError
\* reaches the except branch, which goes on to delete_one
CreateClose(f) ==
  /\ f \in At("c_close")
  /\ IF f.path = "pushed"
       THEN /\ Resume(f, Returned(f, Response(201, "", SubmissionQueued(f.id))))
            /\ created' = created \cup {f.id}
       ELSE /\ Resume(f, Awaiting(f, "c_delete"))
            /\ UNCHANGED created
  /\ UNCHANGED <<store, queue, nextId, now, finOk, raced, wins>>

\* _enqueue_to_queue: await r.close raises RedisError, after a successful or a
\* failed lpush; the except branch goes on to delete_one
CreateEnqueueCloseFail(f) ==
  /\ f \in At("c_close")
  /\ Resume(f, Awaiting(f, "c_delete"))
  /\ UNCHANGED <<store, queue, nextId, now, created, finOk, raced, wins>>

\* mutant: the except RedisError branch raises 503 without the delete
CreateRollback_NoDelete(f) ==
  /\ f \in At("c_delete")
  /\ Resume(f, Returned(f, HTTPException(503, "queue unavailable")))
  /\ UNCHANGED <<store, queue, nextId, now, created, finOk, raced, wins>>

\* the except RedisError branch: delete_one succeeds, 503 is raised
CreateRollback(f) ==
  /\ f \in At("c_delete")
  /\ store' = DeleteOne(store, f.id)
  /\ Resume(f, Returned(f, HTTPException(503, "queue unavailable")))
  /\ UNCHANGED <<queue, nextId, now, created, finOk, raced, wins>>

\* the except RedisError branch: delete_one itself raises; the error propagates
CreateRollbackFail(f) ==
  /\ f \in At("c_delete")
  /\ Resume(f, Returned(f, HTTPException(500, "Internal Server Error")))
  /\ UNCHANGED <<store, queue, nextId, now, created, finOk, raced, wins>>

\* ------------------------------------------------- GET /submissions/{id}
get_submission(id) ==
  /\ IF id \in DOMAIN store
       THEN Accept(Returned(Frame("get", id), Response(200, "", _doc_to_out(store[id]))))
       ELSE Accept(Returned(Frame("get", id), HTTPException(404, "submission not found")))
  /\ UNCHANGED <<store, queue, nextId, now, created, finOk, raced, wins>>

\* ------------------------- POST /internal/submissions/{id}/result
\* mutant: the guard rejects only an absent or empty token
TokenRejected_OnlyAbsent(token) == token = None \/ token = ""

\* the token guard: absent, empty or different from RESULT_TOKEN
TokenRejected(token) == token = None \/ token = "" \/ token # RESULT_TOKEN

\* mutant: the already-finalized guard of the result callback is missing
ResultAlreadyFinalized_Dropped(doc) == FALSE

\* doc.get("finalized") is True or doc.get("status") == "FINALIZED"
ResultAlreadyFinalized(doc) ==
  DictGet(doc, "finalized", FALSE) = TRUE \/ DictGet(doc, "status", None) = "FINALIZED"

\* mutant: FINALIZED passes the status validation
ValidResultStatus_AcceptsFinalized(st) == st \in GradingOutcomes \cup {"FINALIZED"}

\* mutant: the status is validated against STATUSES, the whole lifecycle set
ValidResultStatus_AnyLifecycleStatus(st) == st \in STATUSES

\* payload.status in {"COMPLETED", "FAILED", "TIMEOUT"}
ValidResultStatus(st) == st \in GradingOutcomes

\* mutant: the $set of the result write leaves out the score
update_doc_WithoutScore(payload, t) ==
  [status |-> payload.status,
   fail_tags |-> payload.fail_tags,
   feedback |-> payload.feedback,
   metrics |-> payload.metrics,
   updated_at |-> t]

\* update_doc, with _now_utc() read as t
update_doc(payload, t) ==
  [status |-> payload.status,
   score |-> payload.score,
   fail_tags |-> payload.fail_tags,
   feedback |-> payload.feedback,
   metrics |-> payload.metrics,
   updated_at |-> t]

\* collection.update_one({"_id": id}, {"$set": patch}): no document, no write
UpdateOne(coll, id, patch) ==
  IF id \in DOMAIN coll THEN [coll EXCEPT ![id] = DollarSet(@, patch)] ELSE coll

\* post_result_callback from the token guard to the building of update_doc
post_result_callback(id, body, token) ==
  /\ LET payload == ResultIn(body)
         frame == [Frame("result", id) EXCEPT
                     !.auth = (token = RESULT_TOKEN),
                     !.valid = (payload.status \in GradingOutcomes)]
     IN IF TokenRejected(token)
          THEN /\ Accept(Returned(frame, HTTPException(401, "invalid result token")))
               /\ now' = now
        ELSE IF id \notin DOMAIN store
          THEN /\ Accept(Returned(frame, HTTPException(404, "submission not found")))
               /\ now' = now
        ELSE IF ResultAlreadyFinalized(store[id])
          THEN /\ Accept(Returned(frame, Response(200, "",
                         OkOut(id, DictGet(store[id], "status", "FINALIZED")))))
               /\ now' = now
        ELSE IF ~ValidResultStatus(payload.status)
          THEN /\ Accept(Returned(frame, HTTPException(400, "invalid status")))
               /\ now' = now
        ELSE /\ Accept(Awaiting([frame EXCEPT !.body = body,
                                              !.work = update_doc(payload, now + 1)],
                                "r_update"))
             /\ now' = now + 1
  /\ UNCHANGED <<store, queue, nextId, created, finOk, raced, wins>>

\* post_result_callback: the unconditional update_one and the return
ResultUpdate(f) ==
  /\ f \in At("r_update")
  /\ store' = UpdateOne(store, f.id, f.work)
  /\ Resume(f, Returned(f, Response(200, "", OkOut(f.id, f.work.status))))
  /\ UNCHANGED <<queue, nextId, now, created, finOk, raced, wins>>

\* ------------------------------------ POST /submissions/{id}/finalize
\* mutant: the idempotent early return of finalize is missing
FinalizeAlreadyFinalized_Dropped(doc) == FALSE

\* if doc.get("finalized")
FinalizeAlreadyFinalized(doc) == DictGet(doc, "finalized", FALSE) = TRUE

\* mutant: the write filters on _id alone
FinalizeFilter_Unconditional(doc) == TRUE

\* the filter of the conditional write: {"finalized": {"$ne": True}}
FinalizeFilter(doc) == DictGet(doc, "finalized", FALSE) # TRUE

\* mutant: the finalize write also resets the score
FinalizePatch_ResetsScore(note) ==
  [status |-> "FINALIZED", finalized |-> TRUE, finalize_note |-> note, score |-> 0]

\* the $set of the conditional write
FinalizePatch(note) ==
  [status |-> "FINALIZED", finalized |-> TRUE, finalize_note |-> note]

\* finalize_submission: _get_doc_or_404 and the idempotent early return
finalize_submission(id, note) ==
  /\ LET frame == [Frame("finalize", id) EXCEPT !.note = note]
     IN IF id \notin DOMAIN store
          THEN /\ Accept(Returned(frame, HTTPException(404, "submission not found")))
               /\ UNCHANGED <<finOk, raced>>
        ELSE IF FinalizeAlreadyFinalized(store[id])
          THEN /\ Accept(Returned([frame EXCEPT !.path = "early"],
                                  Response(200, "", FinalizeOut(id))))
               /\ finOk' = finOk \cup {id}
               /\ UNCHANGED raced
        ELSE /\ Accept(Awaiting([frame EXCEPT !.path = "write"], "f_update"))
             /\ raced' = [raced EXCEPT ![id] = @ + 1]
             /\ UNCHANGED finOk
  /\ UNCHANGED <<store, queue, nextId, now, created, wins>>

\* finalize_submission: the conditional update_one matches and is applied
FinalizeUpdate(f) ==
  /\ f \in At("f_update")
  /\ f.id \in DOMAIN store
  /\ FinalizeFilter(store[f.id])
  /\ store' = UpdateOne(store, f.id, FinalizePatch(f.note))
  /\ wins' = [wins EXCEPT ![f.id] = @ + 1]
  /\ finOk' = finOk \cup {f.id}
  /\ Resume(f, Returned([f EXCEPT !.path = "matched"],
                        Response(200, "", FinalizeOut(f.id))))
  /\ UNCHANGED <<queue, nextId, now, created, raced>>

\* mutant: a store whose conditional update is not atomic reports no match for
\* a document that matches the filter
FinalizeNoMatch_NotAtomic(f) ==
  /\ f \in At("f_update")
  /\ Resume(f, Awaiting([f EXCEPT !.path = "reread"], "f_reread"))
  /\ UNCHANGED <<store, queue, nextId, now, created, finOk, raced, wins>>

\* finalize_submission: the conditional update_one matches no document
FinalizeNoMatch(f) ==
  /\ f \in At("f_update")
  /\ ~(f.id \in DOMAIN store /\ FinalizeFilter(store[f.id]))
  /\ Resume(f, Awaiting([f EXCEPT !.path = "reread"], "f_reread"))
  /\ UNCHANGED <<store, queue, nextId, now, created, finOk, raced, wins>>

\* finalize_submission: matched_count == 0, the document is read again
FinalizeReread(f) ==
  /\ f \in At("f_reread")
  /\ IF f.id \notin DOMAIN store
       THEN /\ Resume(f, Returned(f, HTTPException(404, "submission not found")))
            /\ UNCHANGED finOk
     ELSE IF ~FinalizeAlreadyFinalized(store[f.id])
       THEN /\ Resume(f, Returned(f, HTTPException(409, "finalize conflict")))
            /\ UNCHANGED finOk
     ELSE /\ Resume(f, Returned(f, Response(200, "", FinalizeOut(f.id))))
          /\ finOk' = finOk \cup {f.id}
  /\ UNCHANGED <<store, queue, nextId, now, created, raced, wins>>

Next ==
  \/ \E body \in CreateBodies : CreateInsert(body)
  \/ \E body \in CreateBodies : CreateInsertFail(body)
  \/ \E f \in BagToSet(handlers) : CreateEnqueue(f)
  \/ \E f \in BagToSet(handlers) : CreateEnqueueFail(f)
  \/ \E f \in BagToSet(handlers) : CreateClose(f)
  \/ \E f \in BagToSet(handlers) : CreateEnqueueCloseFail(f)
  \/ \E f \in BagToSet(handlers) : CreateRollback(f)
  \/ \E f \in BagToSet(handlers) : CreateRollbackFail(f)
  \/ \E id \in Targets : get_submission(id)
  \/ \E id \in Targets, body \in ResultBodies, token \in Tokens :
       post_result_callback(id, body, token)
  \/ \E f \in BagToSet(handlers) : ResultUpdate(f)
  \/ \E id \in Targets, note \in Notes : finalize_submission(id, note)
  \/ \E f \in BagToSet(handlers) : FinalizeUpdate(f)
  \/ \E f \in BagToSet(handlers) : FinalizeNoMatch(f)
  \/ \E f \in BagToSet(handlers) : FinalizeReread(f)

Spec == Init /\ [][Next]_vars

\* ------------------------------------------- the service of app/main.py
\* app/main.py includes submissions.router only: a request to
\* POST /internal/submissions/{id}/result matches no route of the application,
\* post_result_callback is not run and the framework answers 404 "Not Found"
MainResultRoute(id, body, token) ==
  /\ LET payload == ResultIn(body)
         frame == [Frame("result", id) EXCEPT
                     !.auth = (token = RESULT_TOKEN),
                     !.valid = (payload.status \in GradingOutcomes)]
     IN Accept(Returned(frame, HTTPException(404, "Not Found")))
  /\ UNCHANGED <<store, queue, nextId, now, created, finOk, raced, wins>>

NextMain ==
  \/ \E body \in CreateBodies : CreateInsert(body)
  \/ \E body \in CreateBodies : CreateInsertFail(body)
  \/ \E f \in BagToSet(handlers) : CreateEnqueue(f)
  \/ \E f \in BagToSet(handlers) : CreateEnqueueFail(f)
  \/ \E f \in BagToSet(handlers) : CreateClose(f)
  \/ \E f \in BagToSet(handlers) : CreateEnqueueCloseFail(f)
  \/ \E f \in BagToSet(handlers) : CreateRollback(f)
  \/ \E f \in BagToSet(handlers) : CreateRollbackFail(f)
  \/ \E id \in Targets : get_submission(id)
  \/ \E id \in Targets, body \in ResultBodies, token \in Tokens :
       MainResultRoute(id, body, token)
  \/ \E id \in Targets, note \in Notes : finalize_submission(id, note)
  \/ \E f \in BagToSet(handlers) : FinalizeUpdate(f)
  \/ \E f \in BagToSet(handlers) : FinalizeNoMatch(f)
  \/ \E f \in BagToSet(handlers) : FinalizeReread(f)

\* the application object of app/main.py serving requests
SpecMain == Init /\ [][NextMain]_vars

\* ================================================================ claims
Docs == DOMAIN store

\* the fields the result transition writes
ResultFields == {"status", "score", "fail_tags", "feedback", "metrics"}

\* the fields a finalized document is meant to keep
FrozenFields == ResultFields \cup {"updated_at", "finalize_note"}

\* a field of a document, with "absent" told apart from every value
Field(doc, k) == IF k \in DOMAIN doc THEN <<doc[k]>> ELSE << >>

\* the handlers that have returned
Done == At("done")

\* the number of handlers, with multiplicity, whose frame is in S
Count(S) == BagCardinality([f \in S \cap BagToSet(handlers) |-> CopiesIn(f, handlers)])

\* g is the frame of the request that comes in in this step
Arrives(g) ==
  /\ BagCardinality(handlers') = BagCardinality(handlers) + 1
  /\ CopiesIn(g, handlers') = CopiesIn(g, handlers) + 1

\* the handler with frame f runs on in this step and g is its frame afterwards
Moves(f, g) ==
  /\ BagCardinality(handlers') = BagCardinality(handlers)
  /\ CopiesIn(f, handlers') = CopiesIn(f, handlers) - 1
  /\ CopiesIn(g, handlers') = CopiesIn(g, handlers) + 1

\* C1: in every reachable state every document with finalized == true has
\* status FINALIZED (stated for the submissions a create call has returned).
C1_FinalizedImpliesStatus ==
  \A id \in Docs \cap created :
    store[id].finalized = TRUE => store[id].status = "FINALIZED"

\* C2: once a document has finalized == true, none of its fields status, score,
\* fail_tags, feedback, metrics, updated_at, finalize_note changes in a later step:
\* no result write is applied to a document that is finalized when the write
\* reaches the store (stated for the submissions a create call has returned).
C2_NoWriteOnceFinalized ==
  [][\A id \in Docs \cap created :
       (store[id].finalized = TRUE /\ id \in DOMAIN store')
         => \A k \in FrozenFields : Field(store'[id], k) = Field(store[id], k)]_vars

\* C3: finalize freezes results.  A result call that comes in with the correct
\* token, for a submission a create call has returned and a finalize call has
\* returned success for, returns 200 in its first step, whatever its status value,
\* and writes nothing.
C3_FinalizeFreezesResults ==
  [][\A g \in BagToSet(handlers') :
       (Arrives(g) /\ g.kind = "result" /\ g.auth
          /\ g.id \in created /\ g.id \in finOk)
         => /\ g.pc = "done"
            /\ g.resp.code = 200
            /\ g.resp.body.submission_id = g.id
            /\ store' = store]_vars

\* C3 witness: a result call with the correct token and an invalid status value,
\* come in after a finalize call returned success, has returned 200.
C3_Witness ==
  \E g \in Done :
    /\ g.kind = "result" /\ g.auth /\ ~g.valid
    /\ g.resp.code = 200
    /\ g.id \in created \cap finOk

\* C5: idempotent finalize.  A finalize call that comes in for a submission a
\* create call has returned and an earlier finalize call has returned success for
\* returns 200 with finalized=true and status FINALIZED in its first step and
\* writes nothing, whatever its note.
C5_IdempotentFinalize ==
  [][\A g \in BagToSet(handlers') :
       (Arrives(g) /\ g.kind = "finalize" /\ g.id \in created /\ g.id \in finOk)
         => /\ g.pc = "done"
            /\ g.resp = Response(200, "", FinalizeOut(g.id))
            /\ g.resp.body.finalized = TRUE /\ g.resp.body.status = "FINALIZED"
            /\ store' = store]_vars

\* C5 witness: a second finalize call with a note other than the stored one has
\* returned 200.
C5_Witness ==
  \E g \in Done :
    /\ g.kind = "finalize" /\ g.path = "early" /\ g.resp.code = 200
    /\ g.id \in created /\ g.id \in Docs
    /\ Field(store[g.id], "finalize_note") # <<g.note>>

\* the finalize calls for this submission that read it not finalized, went on to
\* the conditional write and have returned
RacedFinalize(id) ==
  {f \in Done : f.kind = "finalize" /\ f.id = id /\ f.path \in {"matched", "reread"}}

\* C4: concurrent finalize race.  When the two finalize calls that went on to the
\* conditional write for an existing, non-finalized submission have both returned,
\* exactly one of them had its write matched and the other re-read the document;
\* both returned 200 with finalized=true, and the stored finalize_note is the note
\* of the call whose write matched.
C4_ConcurrentFinalizeRace ==
  \A id \in created :
    (raced[id] = 2 /\ Count(RacedFinalize(id)) = 2)
      => /\ \A f \in RacedFinalize(id) :
              /\ f.resp = Response(200, "", FinalizeOut(id))
              /\ f.resp.body.finalized = TRUE
         /\ wins[id] = 1
         /\ Count({f \in RacedFinalize(id) : f.path = "matched"}) = 1
         /\ Count({f \in RacedFinalize(id) : f.path = "reread"}) = 1
         /\ \A f \in RacedFinalize(id) :
              f.path = "matched"
                => /\ id \in Docs
                   /\ Field(store[id], "finalize_note") = <<f.note>>

\* C4 witness: two finalize calls with different notes raced for one submission
\* and both have returned.
C4_Witness ==
  \E id \in created : \E f, g \in RacedFinalize(id) :
    /\ raced[id] = 2
    /\ f.note # g.note
    /\ f.path = "matched" /\ g.path = "reread"

\* the create calls that have returned r
CreateReturned(r) == {f \in Done : f.kind = "create" /\ f.resp = r}

\* the jobs on the queue that name this submission
JobsOf(id) == {i \in 1..Len(queue) : queue[i].submission_id = id}

\* C6: create rollback.  After the insert a create call awaits the push and then
\* the close of the queue connection, leaving the store alone; it returns 201
\* only when both succeed, and when either raises it goes on to the compensating
\* delete; when the delete succeeds the call returns 503 "queue unavailable" in
\* the same step, and from then on no document with its identifier is in the
\* store.
C6_CreateRollback ==
  /\ [](\A f \in CreateReturned(HTTPException(503, "queue unavailable")) :
          f.id \notin Docs)
  /\ [][\A f \in At("c_enqueue") : \A g \in BagToSet(handlers') :
          Moves(f, g)
            => /\ g.pc = "c_close" /\ store' = store
               /\ (g.path = "pushed") = (queue' # queue)]_vars
  /\ [][\A f \in At("c_close") : \A g \in BagToSet(handlers') :
          Moves(f, g)
            => /\ store' = store /\ queue' = queue
               /\ \/ g.pc = "done" /\ g.resp.code = 201 /\ f.path = "pushed"
                  \/ g.pc = "c_delete"]_vars
  /\ [][\A f \in At("c_delete") : \A g \in BagToSet(handlers') :
          Moves(f, g)
            => /\ g.pc = "done"
               /\ \/ /\ g.resp = HTTPException(503, "queue unavailable")
                     /\ f.id \notin DOMAIN store'
                  \/ /\ g.resp.code = 500
                     /\ store' = store]_vars

\* C6 witness: a create call has returned 503 "queue unavailable" after its
\* document had been inserted, while another submission is still stored.
C6_Witness ==
  \E f \in CreateReturned(HTTPException(503, "queue unavailable")) :
    /\ f.id \notin Docs
    /\ Docs # {}

\* C7: a create call whose insert fails returns 503 "database unavailable" at
\* once, adds no document and publishes nothing; a job is published only by a
\* create call that stands after its successful insert, for its own document.
C7_InsertFailureNoPublish ==
  /\ [](\A f \in CreateReturned(HTTPException(503, "database unavailable")) :
          f.id \notin Docs /\ JobsOf(f.id) = {})
  /\ [][\A g \in BagToSet(handlers') :
          (Arrives(g) /\ g.kind = "create")
            => /\ queue' = queue
               /\ \/ /\ g.pc = "done"
                     /\ g.resp = HTTPException(503, "database unavailable")
                     /\ store' = store
                  \/ /\ g.pc = "c_enqueue"
                     /\ g.id \in DOMAIN store']_vars
  /\ [][queue' # queue
          => \E f \in At("c_enqueue") :
               /\ f.id \in Docs
               /\ CopiesIn(f, handlers') = CopiesIn(f, handlers) - 1
               /\ queue' = LPush(queue, JobMessage(store[f.id]))]_vars

\* C7 witness: one create call has returned 503 "database unavailable" and
\* another one has published its job.
C7_Witness ==
  /\ CreateReturned(HTTPException(503, "database unavailable")) # {}
  /\ queue # << >>

\* C8: a create call that returns 201 has added exactly one document, under an
\* identifier not yet in the store, with status QUEUED, score 0, zero metrics,
\* empty fail_tags and feedback, finalized false and the request's assignment_id,
\* language and code; exactly one job names the identifier, it carries the
\* document's assignment_id and language, and the response carries the
\* identifier; a get of a document still QUEUED returns QUEUED and zero metrics.
C8_CreateContract ==
  /\ [][\A g \in BagToSet(handlers') :
          (Arrives(g) /\ g.kind = "create" /\ g.pc = "c_enqueue")
            => LET id == g.id
                   payload == SubmissionCreate(g.body)
               IN /\ id \notin Docs
                  /\ DOMAIN store' = Docs \cup {id}
                  /\ \A i \in Docs : store'[i] = store[i]
                  /\ store'[id]["_id"] = id
                  /\ store'[id].assignment_id = payload.assignment_id
                  /\ store'[id].language = payload.language
                  /\ store'[id].code = payload.code
                  /\ store'[id].status = "QUEUED"
                  /\ store'[id].score = 0
                  /\ store'[id].metrics = [timeMs |-> 0, memoryMB |-> 0]
                  /\ store'[id].fail_tags = << >>
                  /\ store'[id].feedback = << >>
                  /\ store'[id].finalized = FALSE]_vars
  /\ [](\A f \in Done :
          (f.kind = "create" /\ f.resp.code = 201)
            => LET id == f.id
               IN /\ id \in Docs
                  /\ f.resp.body.submission_id = id
                  /\ f.resp.body.status = "QUEUED"
                  /\ Cardinality(JobsOf(id)) = 1
                  /\ \A i \in JobsOf(id) :
                       queue[i] = [submission_id |-> id,
                                   assignment_id |-> store[id].assignment_id,
                                   language |-> store[id].language])
  /\ [][\A g \in BagToSet(handlers') :
          (Arrives(g) /\ g.kind = "get" /\ g.id \in Docs
             /\ store[g.id].status = "QUEUED")
            => /\ g.pc = "done"
               /\ g.resp.code = 200
               /\ g.resp.body.submission_id = g.id
               /\ g.resp.body.status = "QUEUED"
               /\ g.resp.body.score = 0
               /\ g.resp.body.metrics = [timeMs |-> 0, memoryMB |-> 0]
               /\ store' = store]_vars

\* C8 witness: a create call with an explicit language has returned 201 and a get
\* of its submission has returned it as QUEUED.
C8_Witness ==
  \E f, g \in Done :
    /\ f.kind = "create" /\ f.resp.code = 201
    /\ "language" \in DOMAIN f.body
    /\ g.kind = "get" /\ g.id = f.id
    /\ g.id \in created
    /\ g.resp.code = 200 /\ g.resp.body.status = "QUEUED"

\* C9: once a submission's stored status is different from QUEUED it is never
\* QUEUED again.
C9_NeverBackToQueued ==
  [][\A id \in Docs :
       (store[id].status # "QUEUED" /\ id \in DOMAIN store')
         => store'[id].status # "QUEUED"]_vars

\* C9 witness: a submission that left QUEUED by a result write has been written
\* again: a second result write, or the finalize write.
C9_Witness ==
  \E id \in Docs :
    /\ "updated_at" \in DOMAIN store[id]
    /\ \/ store[id].status = "FINALIZED"
       \/ store[id].updated_at > 1

\* C10: every change of a stored status follows an edge of the lifecycle state
\* machine: from QUEUED only to a grading outcome, from a grading outcome only to
\* a grading outcome or to FINALIZED, never out of FINALIZED (stated for the
\* submissions a create call has returned).
C10_StatusFollowsStateMachine ==
  [][\A id \in Docs \cap created :
       (id \in DOMAIN store' /\ store'[id].status # store[id].status)
         => \/ /\ store[id].status = "QUEUED"
               /\ store'[id].status \in GradingOutcomes
            \/ /\ store[id].status \in GradingOutcomes
               /\ store'[id].status \in GradingOutcomes \cup {"FINALIZED"}]_vars

\* C11: a result call whose token is absent or is not the configured secret
\* returns 401 "invalid result token" in its first step, whatever the identifier,
\* the state of the submission and the status value: the response does not depend
\* on the store, and the store and the clock are left as they were.
C11_TokenGuardFirst ==
  [][\A g \in BagToSet(handlers') :
       (Arrives(g) /\ g.kind = "result" /\ ~g.auth)
         => /\ g.pc = "done"
            /\ g.resp = HTTPException(401, "invalid result token")
            /\ store' = store
            /\ now' = now]_vars

\* C11 witness: a result call without the secret, with an invalid status value and
\* for a submission that is finalized, has returned 401.
C11_Witness ==
  \E g \in Done :
    /\ g.kind = "result" /\ ~g.auth /\ ~g.valid
    /\ g.resp.code = 401
    /\ g.id \in created \cap finOk
    /\ g.id \in Docs /\ store[g.id].finalized = TRUE

\* C12: results stay mutable until finalize.  A result call with the secret and a
\* grading outcome, come in for a submission a create call has returned and read
\* as not finalized, goes on to its write; the write sets the stored status,
\* score, fail_tags, feedback and metrics to the payload's values, whatever the
\* document held before, and the call returns 200 with the payload's status; a
\* get returns the stored values of these fields.
C12_ResultsMutableUntilFinalize ==
  /\ [][\A g \in BagToSet(handlers') :
          (Arrives(g) /\ g.kind = "result" /\ g.auth /\ g.valid
             /\ g.id \in created /\ g.id \in Docs
             /\ store[g.id].finalized # TRUE /\ store[g.id].status # "FINALIZED")
            => g.pc = "r_update" /\ g.body \in ResultBodies /\ store' = store]_vars
  /\ [][\A f \in At("r_update") : \A g \in BagToSet(handlers') :
          (Moves(f, g) /\ f.id \in created)
            => /\ g.pc = "done"
               /\ g.resp = Response(200, "", OkOut(f.id, f.body.status))
               /\ f.id \in DOMAIN store'
               /\ \A k \in ResultFields : store'[f.id][k] = ResultIn(f.body)[k]]_vars
  /\ [][\A g \in BagToSet(handlers') :
          (Arrives(g) /\ g.kind = "get" /\ g.id \in Docs)
            => /\ g.pc = "done" /\ g.resp.code = 200
               /\ \A k \in ResultFields : g.resp.body[k] = store[g.id][k]]_vars

\* C12 witness: a second result call has overwritten the grading outcome of an
\* earlier one with a payload of its own, and the document holds its values.
C12_Witness ==
  \E f, g \in Done :
    /\ f.kind = "result" /\ g.kind = "result" /\ f.id = g.id /\ f.id \in created
    /\ f.resp.code = 200 /\ g.resp.code = 200
    /\ f.body \in ResultBodies /\ g.body \in ResultBodies /\ f.body # g.body
    /\ store[g.id].updated_at = 2
    /\ store[g.id].finalized = FALSE
    /\ \A k \in ResultFields : store[g.id][k] = ResultIn(g.body)[k]

\* C13: a result call with the secret, for a stored submission read as not
\* finalized, whose status is not COMPLETED, FAILED or TIMEOUT returns 400
\* "invalid status" in its first step and leaves the store unchanged; and the
\* write of a result call only ever stores a grading outcome as status.
C13_InvalidStatusRejected ==
  /\ [][\A g \in BagToSet(handlers') :
          (Arrives(g) /\ g.kind = "result" /\ g.auth /\ ~g.valid
             /\ g.id \in Docs
             /\ store[g.id].finalized # TRUE /\ store[g.id].status # "FINALIZED")
            => /\ g.pc = "done"
               /\ g.resp = HTTPException(400, "invalid status")
               /\ store' = store]_vars
  /\ [][\A f \in At("r_update") : \A g \in BagToSet(handlers') :
          (Moves(f, g) /\ f.id \in DOMAIN store')
            => store'[f.id].status \in GradingOutcomes]_vars

\* C13 witness: a result call with the secret and a status outside the grading
\* outcomes has returned 400 for a submission that already holds a grading
\* outcome and is not finalized.
C13_Witness ==
  \E g \in Done :
    /\ g.kind = "result" /\ g.auth /\ ~g.valid
    /\ g.resp = HTTPException(400, "invalid status")
    /\ g.id \in created /\ g.id \in Docs
    /\ store[g.id].finalized = FALSE
    /\ store[g.id].status \in GradingOutcomes

\* C14: updated_at is refreshed on every mutating transition: after every step
\* that inserts a document or changes a stored one, that document has an
\* updated_at that is not older than the clock at the step.
C14_UpdatedAtRefreshed ==
  [][\A id \in DOMAIN store' :
       (id \notin Docs \/ store'[id] # store[id])
         => /\ "updated_at" \in DOMAIN store'[id]
            /\ store'[id].updated_at >= now]_vars

\* C15: the finalized flag is irreversible: a document whose finalized is true
\* is still stored, with finalized true, after every step.
C15_FinalizedIrreversible ==
  [][\A id \in Docs :
       store[id].finalized = TRUE
         => id \in DOMAIN store' /\ store'[id].finalized = TRUE]_vars

\* C16: no finalize call ever returns 409 "finalize conflict"; and a finalize call
\* for a submission a create call has returned, whose conditional write matched
\* no document, finds the document finalized when it reads it again and returns
\* 200 with finalized=true, writing nothing.
C16_NoFinalizeConflict ==
  /\ [](\A f \in Done : f.kind = "finalize" => f.resp.code # 409)
  /\ [][\A f \in At("f_reread") : \A g \in BagToSet(handlers') :
          (Moves(f, g) /\ f.id \in created)
            => /\ f.id \in Docs /\ store[f.id].finalized = TRUE
               /\ g.pc = "done"
               /\ g.resp = Response(200, "", FinalizeOut(f.id))
               /\ store' = store]_vars

\* C16 witness: a finalize call whose conditional write matched no document has
\* read the submission again and returned 200.
C16_Witness ==
  \E g \in Done :
    /\ g.kind = "finalize" /\ g.path = "reread" /\ g.id \in created
    /\ g.resp.code = 200

\* the result calls for this submission that went on to their write and have
\* returned
ResultWriters(id) ==
  {f \in Done : f.kind = "result" /\ f.id = id /\ f.body \in ResultBodies}

\* C17: last writer wins among result calls.  The write of a result call sets
\* status, score, fail_tags, feedback, metrics and updated_at to the values of
\* its own payload in one step, and the call returns 200; so when the result
\* calls that went on to write to a submission a create call has returned have
\* all returned and no finalize write was applied, all of them returned 200 and
\* the five stored fields are those of one of their payloads.
C17_LastWriterWins ==
  /\ [][\A f \in At("r_update") : \A g \in BagToSet(handlers') :
          (Moves(f, g) /\ f.id \in DOMAIN store')
            => /\ g.resp = Response(200, "", OkOut(f.id, f.body.status))
               /\ \A k \in ResultFields : store'[f.id][k] = ResultIn(f.body)[k]
               /\ store'[f.id].updated_at = f.work.updated_at]_vars
  /\ [](\A id \in created \cap Docs :
          (/\ store[id].finalized = FALSE
           /\ ResultWriters(id) # {}
           /\ \A f \in At("r_update") : f.id # id)
            => /\ \A f \in ResultWriters(id) : f.resp.code = 200
               /\ \E f \in ResultWriters(id) :
                    \A k \in ResultFields : store[id][k] = ResultIn(f.body)[k])

\* C17 witness: two result calls with different payloads were in flight together
\* for one submission (the one that read the clock first had its write applied
\* last), both have returned 200 and the document holds the fields of the first.
C17_Witness ==
  \E id \in created \cap Docs : \E f, g \in ResultWriters(id) :
    /\ f.body # g.body
    /\ f.resp.code = 200 /\ g.resp.code = 200
    /\ store[id].finalized = FALSE
    /\ now = 2 /\ store[id].updated_at = 1
    /\ \A k \in ResultFields : store[id][k] = ResultIn(f.body)[k]
    /\ store[id].status # g.body.status

\* C18: every job descriptor on the queue names a submission whose document is
\* in the store.
C18_QueuedJobsHaveDocuments ==
  \A i \in 1..Len(queue) : queue[i].submission_id \in Docs

\* g is the frame, after this step, of the handler that takes the step
StepOf(g) == Arrives(g) \/ \E f \in BagToSet(handlers) : Moves(f, g)

\* the fields a result call leaves alone, and those a finalize call leaves alone
ResultKeeps == {"finalized", "finalize_note", "user_id", "assignment_id", "language", "code"}
FinalizeKeeps ==
  {"score", "fail_tags", "feedback", "metrics", "user_id", "assignment_id", "language", "code"}

\* C19: frame of the two mutating transitions.  No step of a result call changes
\* finalized, finalize_note, user_id, assignment_id, language or code of a
\* document; no step of a finalize call changes its score, fail_tags, feedback,
\* metrics, user_id, assignment_id, language or code; no step of either adds or
\* removes a document or changes the document of another identifier.
C19_FrameOfTransitions ==
  [][\A g \in BagToSet(handlers') :
       (StepOf(g) /\ g.kind \in {"result", "finalize"})
         => /\ DOMAIN store' = Docs
            /\ \A id \in Docs \ {g.id} : store'[id] = store[id]
            /\ \A id \in Docs \cap {g.id} :
                 \A k \in (IF g.kind = "result" THEN ResultKeeps ELSE FinalizeKeeps) :
                   Field(store'[id], k) = Field(store[id], k)]_vars

\* C19 witness: a result write and then a finalize write were applied to one
\* document: it holds the result's score and the finalize note, and its code is
\* the one it was created with.
C19_Witness ==
  \E id \in created \cap Docs :
    /\ store[id].finalized = TRUE /\ store[id].status = "FINALIZED"
    /\ Field(store[id], "finalize_note") = <<"Approved">>
    /\ "updated_at" \in DOMAIN store[id]
    /\ store[id].score = 95
    /\ store[id].code = "print(1)"
    /\ \E g \in Done : g.kind = "result" /\ g.id = id /\ g.body \in ResultBodies
    /\ \E g \in Done : g.kind = "finalize" /\ g.id = id /\ g.path = "matched"

\* C20: in the assembled service the result transition works on the store of
\* create, get and finalize: a result call with the secret and a grading outcome
\* for a submission a create call has returned, not finalized, is not answered
\* with not-found or a server error; it goes on to its write.
C20_ResultReachableInService ==
  [][\A g \in BagToSet(handlers') :
       (Arrives(g) /\ g.kind = "result" /\ g.auth /\ g.valid
          /\ g.id \in created /\ g.id \in Docs
          /\ store[g.id].finalized # TRUE /\ store[g.id].status # "FINALIZED")
         => /\ g.resp.code \notin {404, 500}
            /\ g.pc = "r_update"]_vars
====
